---- MODULE Spec2Model ----
(***************************************************************************)
(* Model of the persona store (config/persona_utils.py), the image         *)
(* generation driver (config/generate_images.py) and the meeting-bot       *)
(* gateway (scripts/meetingbaas_api.py).                                   *)
(*                                                                         *)
(* Text is a sequence of tokens.  The characters the code looks at (the    *)
(* newline, the space, "#", "-", ":") are tokens of their own; a run of    *)
(* other characters (a word) is one token.  Python's str operations are    *)
(* the operators below, computed on these sequences as str computes them.  *)
(***************************************************************************)
EXTENDS Integers, Sequences, FiniteSets, TLC

NL == "\n"
SP == " "

\* ------------------------------------------------------------------ str

Min(S) == CHOOSE x \in S : \A y \in S : x <= y

\* s[i:].startswith(p), i counted from 1
IsPrefixAt(s, i, p) ==
    /\ i + Len(p) - 1 <= Len(s)
    /\ SubSeq(s, i, i + Len(p) - 1) = p

StartsWith(s, p) == IsPrefixAt(s, 1, p)

\* s.find(p, i): the first position >= i where p occurs, 0 when there is none
Find(s, p, i) ==
    LET c == {j \in i..(Len(s) - Len(p) + 1) : IsPrefixAt(s, j, p)}
    IN  IF c = {} THEN 0 ELSE Min(c)

\* p in s
Contains(s, p) == Find(s, p, 1) # 0

\* s[i:], i counted from 1
From(s, i) == SubSeq(s, i, Len(s))

\* s.split(sep): non-overlapping occurrences, left to right
RECURSIVE Split(_, _)
Split(s, sep) ==
    LET j == Find(s, sep, 1)
    IN  IF j = 0 THEN <<s>>
        ELSE <<SubSeq(s, 1, j - 1)>> \o Split(From(s, j + Len(sep)), sep)

\* s.split(sep, 1)
Split1(s, sep) ==
    LET j == Find(s, sep, 1)
    IN  IF j = 0 THEN <<s>>
        ELSE <<SubSeq(s, 1, j - 1), From(s, j + Len(sep))>>

\* s.replace(old, new)
RECURSIVE Replace(_, _, _)
Replace(s, old, new) ==
    LET j == Find(s, old, 1)
    IN  IF j = 0 THEN s
        ELSE SubSeq(s, 1, j - 1) \o new \o Replace(From(s, j + Len(old)), old, new)

Whitespace == {SP, NL}

RECURSIVE LStrip(_)
LStrip(s) ==
    IF s # <<>> /\ Head(s) \in Whitespace THEN LStrip(Tail(s)) ELSE s

RECURSIVE RStrip(_)
RStrip(s) ==
    IF s # <<>> /\ s[Len(s)] \in Whitespace THEN RStrip(SubSeq(s, 1, Len(s) - 1)) ELSE s

\* s.strip()
Strip(s) == LStrip(RStrip(s))

\* sep.join(parts)
RECURSIVE Join(_, _)
Join(sep, parts) ==
    IF parts = <<>> THEN <<>>
    ELSE IF Len(parts) = 1 THEN parts[1]
    ELSE parts[1] \o sep \o Join(sep, Tail(parts))

\* ------------------------------------------------------- parse_readme

SectionSep == <<NL, "#", "#", SP>>       \* "\n## "
TitleMark  == <<"#", SP>>                \* "# "
BlankLine  == <<NL, NL>>                 \* "\n\n"
ItemMark   == <<"-", SP>>                \* "- "
KeySep     == <<":", SP>>                \* ": "
ImageKey   == <<"image">>
EntryKey   == <<"entry_message">>

\* The metadata dict after the lines of the Metadata section, read at `key`:
\* every "- k: v" line assigns metadata[k] = v.strip(), so the last line wins.
RECURSIVE MetaValue(_, _, _)
MetaValue(lines, key, default) ==
    IF lines = <<>> THEN default
    ELSE LET line == lines[Len(lines)]
             kv   == Split1(From(line, 3), KeySep)
         IN  IF StartsWith(line, ItemMark) /\ Len(kv) = 2 /\ kv[1] = key
             THEN Strip(kv[2])
             ELSE MetaValue(SubSeq(lines, 1, Len(lines) - 1), key, default)

\* The first section that starts with "Metadata" (the loop breaks after it)
MetadataSections(sections) ==
    {i \in 1..Len(sections) : StartsWith(sections[i], <<"Metadata">>)}

MetadataLines(sections) ==
    IF MetadataSections(sections) = {} THEN <<>>
    ELSE Split(sections[Min(MetadataSections(sections))], <<NL>>)

Raised(exc, msg) == [kind |-> "raise", exc |-> exc, msg |-> msg]

IsRaised(r) == r.kind = "raise"

Record(name, prompt, image, entry) ==
    [kind |-> "persona", name |-> name, prompt |-> prompt,
     image |-> image, entry_message |-> entry]

parse_readme(content) ==
    LET sections == Split(content, SectionSep)
        name     == Strip(Replace(Split1(sections[1], <<NL>>)[1], TitleMark, <<>>))
        parts    == Split1(sections[1], BlankLine)
        lines    == MetadataLines(sections)
    IN  IF Len(parts) < 2 THEN Raised("IndexError", <<>>)
        ELSE Record(name, Strip(parts[2]),
                    MetaValue(lines, ImageKey, <<>>),
                    MetaValue(lines, EntryKey, <<>>))

\* ------------------------------------------------------- save_persona

Characteristics ==
    <<"Characteristics", NL,
      "-", SP, "Gen", "-", "Z", SP, "speech", SP, "patterns", NL,
      "-", SP, "Tech", "-", "savvy", SP, "and", SP, "modern", NL,
      "-", SP, "Playful", SP, "and", SP, "engaging", SP, "personality", NL,
      "-", SP, "Unique", SP, "perspective", SP, "on", SP, "their", SP, "domain", NL>>

VoiceTail ==
    <<SP, "speaks", SP, "with", ":", NL,
      "-", SP, "modern", SP, "internet", SP, "slang", NL,
      "-", SP, "expertise", SP, "in", SP, "their", SP, "field", NL>>

\* readme_content, the f-string of save_persona
readme_content(p) ==
    <<"#", SP>> \o p.name \o <<NL, NL>>
    \o p.prompt \o <<NL, NL>>
    \o <<"#", "#", SP>> \o Characteristics \o <<NL>>
    \o <<"#", "#", SP, "Voice", NL>> \o p.name \o VoiceTail \o <<NL>>
    \o <<"#", "#", SP, "Metadata", NL>>
    \o <<"-", SP, "image", ":", SP>> \o p.image \o <<NL>>
    \o <<"-", SP, "entry_message", ":", SP>> \o p.entry_message \o <<NL>>

\* save_persona(key, persona) on the directory entry `entry` of personas_dir/key.
\* fault is what the file system does: "none", or the call that raises
\* (mkdir, open, write).  An entry is absent, a plain file, a directory
\* without README.md ("dir") or a directory with one ("readme").
Absent    == [kind |-> "absent", content |-> <<>>]
PlainFile == [kind |-> "file", content |-> <<>>]
EmptyDir  == [kind |-> "dir", content |-> <<>>]
Readme(content) == [kind |-> "readme", content |-> content]

Faults == {"none", "mkdir", "open", "write"}

\* mkdir(exist_ok=True) raises on a path that is a plain file
MkdirRaises(entry, fault) == fault = "mkdir" \/ entry.kind = "file"

save_persona_entry(entry, persona, fault) ==
    IF MkdirRaises(entry, fault) THEN entry
    ELSE IF fault = "open" THEN (IF entry.kind = "absent" THEN EmptyDir ELSE entry)
    ELSE IF fault = "write" THEN Readme(<<>>)    \* open(.., "w") has truncated it
    ELSE Readme(readme_content(persona))

save_persona_ok(entry, fault) == ~MkdirRaises(entry, fault) /\ fault = "none"

\* ------------------------------------------------- the personas dict

\* self.personas: a dict in insertion order, a sequence of [key, val] items
HasKey(d, k) == \E i \in 1..Len(d) : d[i].key = k


IndexOf(d, k) == CHOOSE i \in 1..Len(d) : d[i].key = k

At(d, k) == d[IndexOf(d, k)].val

\* list(d.keys()), each key as a text
RECURSIVE KeyTexts(_)
KeyTexts(d) == IF d = <<>> THEN <<>> ELSE <<(<<d[1].key>>)>> \o KeyTexts(Tail(d))

\* [p["name"] for p in d.values()]
RECURSIVE NameTexts(_)
NameTexts(d) == IF d = <<>> THEN <<>> ELSE <<d[1].val.name>> \o NameTexts(Tail(d))

\* d[k]["image"] = image
SetImage(d, k, image) == [d EXCEPT ![IndexOf(d, k)].val.image = image]

Bool(b) == [kind |-> "bool", val |-> b]

NoValue == [kind |-> "none"]

\* ------------------------------------------------------ load_personas

\* The orders iterdir() can list the entries of personas_dir in
Orders(dsk) ==
    LET present == {k \in DOMAIN dsk : dsk[k].kind # "absent"}
        n       == Cardinality(present)
    IN  {o \in [1..n -> present] : \A i, j \in 1..n : o[i] = o[j] => i = j}

\* personas[persona_dir.name] = self.parse_readme(content), for each of dirs
RECURSIVE ParseAll(_, _)
ParseAll(dsk, dirs) ==
    IF dirs = <<>> THEN <<>>
    ELSE <<[key |-> dirs[1], val |-> parse_readme(dsk[dirs[1]].content)]>>
         \o ParseAll(dsk, Tail(dirs))

\* ioerr: iterdir(), open() or read() raises.  Any exception, a parse error of
\* one document included, is logged and raised again by the outer handler.
load_personas(dsk, order, ioerr) ==
    LET HasReadme(k) == dsk[k].kind = "readme"
        dirs   == SelectSeq(order, HasReadme)
        parsed == ParseAll(dsk, dirs)
    IN  IF ioerr THEN Raised("OSError", <<>>)
        ELSE IF \E i \in 1..Len(dirs) : IsRaised(parsed[i].val)
        THEN Raised("IndexError", <<>>)
        ELSE [kind |-> "dict", items |-> parsed]

\* ------------------------------------------------------ save_personas

\* The disk after the saves of d[i..]: the loop of save_personas.
\* faults[k]: what the file system does to the save of key k
RECURSIVE SaveFrom(_, _, _, _)
SaveFrom(d, i, dsk, faults) ==
    IF i > Len(d) THEN dsk
    ELSE SaveFrom(d, i + 1,
                  [dsk EXCEPT ![d[i].key] =
                      save_persona_entry(dsk[d[i].key], d[i].val, faults[d[i].key])],
                  faults)

save_personas(d, dsk, faults) ==
    [disk |-> SaveFrom(d, 1, dsk, faults),
     ret  |-> Bool(\A i \in 1..Len(d) : save_persona_ok(dsk[d[i].key], faults[d[i].key]))]

\* -------------------------------------------------------- get_persona

interaction_instructions ==
    <<NL, "Remember", ":", NL,
      "1.", SP, "Start", SP, "by", SP, "clearly", SP, "stating", SP, "who", SP,
      "you", SP, "are", NL,
      "2.", SP, "When", SP, "someone", SP, "new", SP, "speaks", ",", SP, "ask", SP,
      "them", SP, "who", SP, "they", SP, "are", NL,
      "3.", SP, "Then", SP, "consider", SP, "and", SP, "express", SP, "how", SP,
      "their", SP, "role/expertise", SP, "could", SP, "help", SP, "you">>

\* No argument (name=None)
None == <<"None">>

\* f"Persona '{name}' not found. Valid options: {', '.join(options)}"
NotFound(name, options) ==
    Raised("KeyError",
           <<"Persona", SP, "'">> \o name \o <<"'", SP, "not", SP, "found", ".", SP,
             "Valid", SP, "options", ":", SP>> \o Join(<<",", SP>>, options))

\* The record get_persona returns from the copy it took
Instructed(persona) ==
    [persona EXCEPT !.prompt = persona.prompt \o interaction_instructions]

\* get_persona without the .copy(): the instructions are appended to the
\* stored record
get_persona_drop_copy(d, name, pick) ==
    IF name # None /\ name # <<>> THEN
        IF ~HasKey(d, name[1])
        THEN [personas |-> d, ret |-> NotFound(name, KeyTexts(d))]
        ELSE [personas |-> [d EXCEPT ![IndexOf(d, name[1])].val = Instructed(At(d, name[1]))],
              ret |-> Instructed(At(d, name[1]))]
    ELSE IF d = <<>> THEN [personas |-> d, ret |-> Raised("IndexError", <<>>)]
    ELSE [personas |-> [d EXCEPT ![pick].val = Instructed(d[pick].val)],
          ret |-> Instructed(d[pick].val)]

\* get_persona whose KeyError lists the display names, as get_persona_by_name's
get_persona_name_options(d, name, pick) ==
    IF name # None /\ name # <<>> THEN
        IF ~HasKey(d, name[1])
        THEN [personas |-> d, ret |-> NotFound(name, NameTexts(d))]
        ELSE [personas |-> d, ret |-> Instructed(At(d, name[1]))]
    ELSE IF d = <<>> THEN [personas |-> d, ret |-> Raised("IndexError", <<>>)]
    ELSE [personas |-> d, ret |-> Instructed(d[pick].val)]

\* get_persona(name); pick is the index random.choice draws.  A key is the
\* one-token text <<k>>; `if name:` is false for None and for the empty text.
\* The result carries the store as the call leaves it.
get_persona(d, name, pick) ==
    IF name # None /\ name # <<>> THEN
        IF ~HasKey(d, name[1])
        THEN [personas |-> d, ret |-> NotFound(name, KeyTexts(d))]
        ELSE [personas |-> d, ret |-> Instructed(At(d, name[1]))]
    ELSE IF d = <<>> THEN [personas |-> d, ret |-> Raised("IndexError", <<>>)]
    ELSE [personas |-> d, ret |-> Instructed(d[pick].val)]

\* get_persona_by_name(name): the first record with that display name
get_persona_by_name(d, name) ==
    LET hits == {i \in 1..Len(d) : d[i].val.name = name}
    IN  IF hits # {} THEN d[Min(hits)].val
        ELSE NotFound(name, NameTexts(d))

\* ----------------------------------------------- update_persona_image

\* update_persona_image that inserts a record for a key it does not know
update_persona_image_upsert(d, dsk, key, image, fault) ==
    IF HasKey(d, key) THEN
        LET d2 == SetImage(d, key, image)
        IN  [personas |-> d2,
             disk     |-> [dsk EXCEPT ![key] = save_persona_entry(dsk[key], At(d2, key), fault)],
             ret      |-> Bool(save_persona_ok(dsk[key], fault))]
    ELSE [personas |-> Append(d, [key |-> key, val |-> Record(<<>>, <<>>, image, <<>>)]),
          disk |-> dsk, ret |-> Bool(FALSE)]

\* str(image_path) of a str is that str
update_persona_image(d, dsk, key, image, fault) ==
    IF HasKey(d, key) THEN
        LET d2 == SetImage(d, key, image)
        IN  [personas |-> d2,
             disk     |-> [dsk EXCEPT ![key] = save_persona_entry(dsk[key], At(d2, key), fault)],
             ret      |-> Bool(save_persona_ok(dsk[key], fault))]
    ELSE [personas |-> d, disk |-> dsk, ret |-> Bool(FALSE)]

\* ------------------------------------------------- needs_image_upload

\* needs_image_upload that answers False for an empty image
needs_image_upload_unless_empty(d, key, domain) ==
    IF ~HasKey(d, key) THEN FALSE
    ELSE At(d, key).image # <<>> /\ ~Contains(At(d, key).image, domain)

\* `x and y` of Python is x when x is falsy (the empty str), else y
needs_image_upload(d, key, domain) ==
    IF ~HasKey(d, key) THEN FALSE
    ELSE ~(At(d, key).image # <<>> /\ Contains(At(d, key).image, domain))

\* ---------------------------------------------------------------- state

VARIABLES
    pc,          \* where the process is: "import", "ready", "crashed", or a step of main()
    disk,        \* personas_dir: directory name -> entry
    personas,    \* persona_manager.personas
    op,          \* the call made last, with its arguments
    ret,         \* what that call returned or raised
    tasks,       \* main(): the tasks prepared, one per persona without image
    results,     \* main(): (persona_name, AsyncResult) pairs
    wstate,      \* the pool: task -> "queued", "running", "ok", "failed"
    runs,        \* task -> how many times generate_image_worker ran it
    idx,         \* main(): position of the running for loop
    localFiles,  \* local_images/: keys whose .png was written
    uploaded,    \* per task, what upload_file did for its result
    request,     \* the HTTP request sent last to api.meetingbaas.com
    nfaults      \* main(): how many saves the file system has failed so far

storeVars  == <<pc, disk, personas, op, ret>>
driverVars == <<tasks, results, wstate, runs, idx, localFiles, uploaded, nfaults>>
vars ==
    <<pc, disk, personas, op, ret, tasks, results, wstate, runs, idx, localFiles, uploaded,
      request,
      nfaults>>

NoRequest == [method |-> "none"]

NoDriver ==
    /\ request = NoRequest
    /\ tasks = <<>>
    /\ results = <<>>
    /\ wstate = <<>>
    /\ runs = <<>>
    /\ idx = 0
    /\ localFiles = {}
    /\ uploaded = <<>>
    /\ nfaults = 0

\* ---------------------------------------------------------------- inputs

\* The directory names under personas_dir
Keys == {"k1", "k2"}

\* "# <name>\n\n<prompt>\n\n## Metadata\n- image: <image>\n- entry_message: hi\n"
Document(name, prompt, image) ==
    <<"#", SP>> \o name \o <<NL, NL>> \o prompt \o <<NL, NL>>
    \o <<"#", "#", SP, "Metadata", NL>>
    \o <<"-", SP, "image", ":", SP>> \o image \o <<NL>>
    \o <<"-", SP, "entry_message", ":", SP, "hi", NL>>

Url(host) == <<"https://", host, "/a.png">>

UploadDomain == <<"uploadthing.com">>

NovaDoc   == Document(<<"Nova">>, <<"I", SP, "am", SP, "Nova", ".">>, <<>>)
HostedDoc == Document(<<"Echo">>, <<"I", SP, "am", SP, "Echo", ".">>, Url("uploadthing.com"))
TitleOnlyDoc == <<"#", SP, "Nova", NL>>

LocalDoc  == Document(<<"Nova">>, <<"I", SP, "am", SP, "Nova", ".">>, <<"local_images/a.png">>)

InitEntries ==
    {Absent, PlainFile, EmptyDir, Readme(NovaDoc), Readme(HostedDoc), Readme(TitleOnlyDoc)}

\* The lookups are made on stores with every kind of image value
LookupEntries == InitEntries \cup {Readme(LocalDoc)}

Images == {<<>>, Url("x.com")}

Domains == {UploadDomain, <<"x.com">>, <<>>}

\* Arguments of the by-key calls: the directory names and the empty text
LookupKeys == Keys \cup {""}

LookupNames == {<<k>> : k \in Keys} \cup {<<>>, None}

DisplayNames == {<<"Nova">>, <<"Echo">>, <<"Zed">>}

\* ------------------------------------------------------------ the store

\* The module is imported: persona_manager = PersonaManager()
Construct ==
    /\ pc = "import"
    /\ \E order \in Orders(disk), ioerr \in BOOLEAN :
         LET r == load_personas(disk, order, ioerr)
         IN  /\ op' = [name |-> "__init__", ioerr |-> ioerr]
             /\ ret' = r
             /\ IF IsRaised(r)
                THEN pc' = "crashed" /\ personas' = personas
                ELSE pc' = "ready" /\ personas' = r.items
    /\ UNCHANGED <<disk, driverVars, request>>

\* load_personas() returns the mapping; only __init__ assigns it
LoadPersonas ==
    /\ pc = "ready"
    /\ \E order \in Orders(disk), ioerr \in BOOLEAN :
         /\ op' = [name |-> "load_personas", ioerr |-> ioerr]
         /\ ret' = load_personas(disk, order, ioerr)
    /\ UNCHANGED <<pc, disk, personas, driverVars, request>>

SavePersonas ==
    /\ pc = "ready"
    /\ \E faults \in [Keys -> Faults] :
         LET r == save_personas(personas, disk, faults)
         IN  /\ op' = [name |-> "save_personas", faults |-> faults]
             /\ disk' = r.disk
             /\ ret' = r.ret
    /\ UNCHANGED <<pc, personas, driverVars, request>>

UpdatePersonaImage ==
    /\ pc = "ready"
    /\ \E key \in LookupKeys, image \in Images, fault \in Faults :
         LET r == update_persona_image(personas, disk, key, image, fault)
         IN  /\ op' = [name |-> "update_persona_image", key |-> key, image |-> image,
                       fault |-> fault, known |-> HasKey(personas, key)]
             /\ personas' = r.personas
             /\ disk' = r.disk
             /\ ret' = r.ret
    /\ UNCHANGED <<pc, driverVars, request>>

GetPersona ==
    /\ pc = "ready"
    /\ \E name \in LookupNames, pick \in 1..Len(personas) \cup {1} :
         /\ LET r == get_persona(personas, name, pick)
            IN  /\ op' = [name |-> "get_persona", arg |-> name, pick |-> pick]
                /\ personas' = r.personas
                /\ ret' = r.ret
    /\ UNCHANGED <<pc, disk, driverVars, request>>

GetPersonaByName ==
    /\ pc = "ready"
    /\ \E name \in DisplayNames :
         /\ op' = [name |-> "get_persona_by_name", arg |-> name]
         /\ ret' = get_persona_by_name(personas, name)
    /\ UNCHANGED <<pc, disk, personas, driverVars, request>>

NeedsImageUpload ==
    /\ pc = "ready"
    /\ \E key \in LookupKeys, domain \in Domains :
         /\ op' = [name |-> "needs_image_upload", key |-> key, domain |-> domain]
         /\ ret' = Bool(needs_image_upload(personas, key, domain))
    /\ UNCHANGED <<pc, disk, personas, driverVars, request>>

StoreInit ==
    /\ pc = "import"
    /\ disk \in [Keys -> InitEntries]
    /\ personas = <<>>
    /\ op = [name |-> "none"]
    /\ ret = NoValue
    /\ NoDriver

StoreNext ==
    \/ Construct
    \/ LoadPersonas
    \/ SavePersonas
    \/ UpdatePersonaImage
    \/ GetPersona

SpecStore == StoreInit /\ [][StoreNext]_vars

LookupInit ==
    /\ pc = "import"
    /\ disk \in [Keys -> LookupEntries]
    /\ personas = <<>>
    /\ op = [name |-> "none"]
    /\ ret = NoValue
    /\ NoDriver

LookupNext ==
    \/ Construct
    \/ GetPersona
    \/ GetPersonaByName
    \/ NeedsImageUpload

SpecLookup == LookupInit /\ [][LookupNext]_vars
\* ------------------------------------------- save_persona, parse_readme

MaxNameFrags == 2
MaxPromptFrags == 3
MaxValueFrags == 2

\* The texts made of at most n of the fragments
RECURSIVE Texts(_, _)
Texts(frags, n) ==
    IF n = 0 THEN {<<>>}
    ELSE LET shorter == Texts(frags, n - 1)
         IN  shorter \cup {t \o f : t \in shorter, f \in frags}

NameFrags == {<<"N">>, <<SP>>, TitleMark, <<NL>>}

\* A line "## Metadata", a line "## Notes" and a line "- image: x" among them
PromptFrags ==
    {<<"p">>, <<SP>>, <<NL>>,
     <<NL, "#", "#", SP, "Metadata">>,
     <<NL, "#", "#", SP, "Notes">>,
     <<NL, "-", SP, "image", ":", SP, "x">>}

ValueFrags == {<<"u">>, <<SP>>}

Records ==
    {Record(n, p, i, e) :
        n \in Texts(NameFrags, MaxNameFrags), p \in Texts(PromptFrags, MaxPromptFrags),
        i \in Texts(ValueFrags, MaxValueFrags), e \in {<<>>, <<"hi">>}}

\* save_persona(key, persona), called with any record
SavePersona ==
    /\ pc = "ready"
    /\ \E key \in Keys, persona \in Records, fault \in Faults :
         /\ op' = [name |-> "save_persona", key |-> key, persona |-> persona, fault |-> fault]
         /\ disk' = [disk EXCEPT ![key] = save_persona_entry(disk[key], persona, fault)]
         /\ ret' = Bool(save_persona_ok(disk[key], fault))
    /\ pc' = "saved"
    /\ UNCHANGED <<personas, driverVars, request>>

\* parse_readme(content) of the document that call left on disk
ParseReadme ==
    /\ pc = "saved"
    /\ disk[op.key].kind = "readme"
    /\ op' = [name |-> "parse_readme", key |-> op.key, persona |-> op.persona,
              saved |-> ret.val]
    /\ ret' = parse_readme(disk[op.key].content)
    /\ pc' = "parsed"
    /\ UNCHANGED <<disk, personas, driverVars, request>>

RoundTripInit ==
    /\ pc = "ready"
    /\ disk = [k \in Keys |-> Absent]
    /\ personas = <<>>
    /\ op = [name |-> "none"]
    /\ ret = NoValue
    /\ NoDriver

RoundTripNext ==
    \/ SavePersona
    \/ ParseReadme

SpecRoundTrip == RoundTripInit /\ [][RoundTripNext]_vars
\* ------------------------------------------------- meetingbaas_api.py

\* A JSON value: its Python type and its text
Val(type, val) == [type |-> type, val |-> val]

Str(text) == Val("str", text)

\* pydantic's HttpUrl accepts a text that is scheme://host...
IsHttpUrl(text) == Len(text) >= 2 /\ text[1] \in {"http://", "https://"}

JsonTypes == {"str", "int", "float", "bool", "list", "dict", "NoneType"}

\* f"{websocket_url}/ws/{bot_id}"
websocket_with_path == <<"wss://", "host", "/ws/", "bot-1">>

\* f"{persona_name}-BaaS-{bot_id}"
deduplication_key == <<"Nova", "-", "BaaS", "-", "bot-1">>

streaming_config ==
    Val("dict", <<"input">> \o websocket_with_path \o <<"output">> \o websocket_with_path
                \o <<"audio_frequency", "24khz">>)

\* The optional items a dict gets when `present` holds
Item(present, key, value) == IF present THEN <<[key |-> key, val |-> value]>> ELSE <<>>

\* request.model_dump(exclude_none=True): every field that is not None, the
\* bot_image as the Url object the model holds
model_dump(bot_image, entry_message, extra, recorder_only) ==
    <<[key |-> "meeting_url", val |-> Str(<<"https://", "meet", "/x">>)],
      [key |-> "bot_name", val |-> Str(<<"Nova">>)],
      [key |-> "reserved", val |-> Val("bool", <<"False">>)],
      [key |-> "streaming", val |-> streaming_config],
      [key |-> "automatic_leave", val |-> Val("dict", <<"waiting_room_timeout", "600",
                                                        "noone_joined_timeout", "0">>)],
      [key |-> "recording_mode", val |-> Str(<<"speaker_view">>)]>>
    \o Item(bot_image # None, "bot_image", Val("Url", bot_image))
    \o <<[key |-> "deduplication_key", val |-> Str(deduplication_key)]>>
    \o Item(entry_message # None, "entry_message", Str(entry_message))
    \o Item(extra.type # "NoneType", "extra", extra)
    \o Item(recorder_only, "speech_to_text", Val("dict", <<"provider", "Default">>))

\* The hand-built config of the except branch: the optional items when truthy
manual_config(bot_image, entry_message, extra, recorder_only) ==
    <<[key |-> "meeting_url", val |-> Str(<<"https://", "meet", "/x">>)],
      [key |-> "bot_name", val |-> Str(<<"Nova">>)],
      [key |-> "reserved", val |-> Val("bool", <<"False">>)],
      [key |-> "deduplication_key", val |-> Str(deduplication_key)],
      [key |-> "streaming", val |-> streaming_config]>>
    \o Item(bot_image \notin {None, <<>>}, "bot_image", Str(bot_image))
    \o Item(entry_message \notin {None, <<>>}, "entry_message", Str(entry_message))
    \o Item(extra.type # "NoneType" /\ extra.val # <<>>, "extra", extra)
    \o Item(recorder_only, "speech_to_text", Val("dict", <<"provider", "Default">>))

\* json.dumps accepts a value of a JSON type whose content is of JSON types
Serializable(v) == v.type \in JsonTypes /\ ~Contains(v.val, <<"object">>)

RECURSIVE AllSerializable(_)
AllSerializable(config) ==
    config = <<>> \/ (Serializable(config[1].val) /\ AllSerializable(Tail(config)))

\* After a TypeError of json.dumps: config[key] = str(value) for every value
\* that is of no JSON type
RECURSIVE Coerced(_)
Coerced(config) ==
    IF config = <<>> THEN <<>>
    ELSE <<IF config[1].val.type \in JsonTypes THEN config[1]
           ELSE [config[1] EXCEPT !.val = Str(config[1].val.val)]>>
         \o Coerced(Tail(config))

Payload(config) == IF AllSerializable(config) THEN config ELSE Coerced(config)

Returned(val) == [kind |-> "value", val |-> val]

\* What requests.post / requests.delete does
Replies ==
    {[kind |-> "exception", code |-> 0, body |-> "none"],
     [kind |-> "response", code |-> 200, body |-> "bot_id"],
     [kind |-> "response", code |-> 200, body |-> "no_bot_id"],
     [kind |-> "response", code |-> 200, body |-> "not_json"],
     [kind |-> "response", code |-> 500, body |-> "none"]}

\* The identifier the body of a 200 carries
ReplyBotId == <<"remote-7">>

\* create_meeting_bot.  dump_ok: request.model_dump exists and returns.
\* MeetingBaasRequest(...) is built outside every try block, and pydantic
\* raises ValidationError for a bot_image that is no URL.
create_meeting_bot(bot_image, entry_message, extra, recorder_only, dump_ok, reply) ==
    IF bot_image # None /\ ~IsHttpUrl(bot_image)
    THEN [request |-> NoRequest, ret |-> Raised("ValidationError", <<>>)]
    ELSE LET config == IF dump_ok
                       THEN model_dump(bot_image, entry_message, extra, recorder_only)
                       ELSE manual_config(bot_image, entry_message, extra, recorder_only)
             json   == Payload(config)
         IN  IF ~AllSerializable(json)  \* requests.post raises TypeError, caught
             THEN [request |-> NoRequest, ret |-> Returned(None)]
             ELSE [request |-> [method |-> "POST", url |-> <<"/bots">>, json |-> json],
                   ret |-> IF reply.kind = "response" /\ reply.code = 200
                           THEN (IF reply.body = "bot_id" THEN Returned(ReplyBotId)
                                 ELSE Returned(None))
                           ELSE Returned(None)]

leave_meeting_bot(bot_id, reply) ==
    [request |-> [method |-> "DELETE", url |-> <<"/bots/">> \o bot_id, json |-> <<>>],
     ret |-> Bool(reply.kind = "response" /\ reply.code = 200)]

BotImages == {None, <<>>, <<"local_images/", "a.png">>, Url("x.com")}

EntryMessages == {None, <<>>, <<"hi">>}

Extras ==
    {Val("NoneType", <<>>), Val("dict", <<>>), Val("dict", <<"team", "qa">>),
     Val("dict", <<"team", "object">>)}

CreateMeetingBot ==
    /\ \E bot_image \in BotImages, entry_message \in EntryMessages, extra \in Extras,
          recorder_only \in BOOLEAN, dump_ok \in BOOLEAN, reply \in Replies :
         LET r == create_meeting_bot(bot_image, entry_message, extra, recorder_only,
                                     dump_ok, reply)
         IN  /\ op' = [name |-> "create_meeting_bot", bot_image |-> bot_image,
                       entry_message |-> entry_message, extra |-> extra,
                       recorder_only |-> recorder_only, dump_ok |-> dump_ok,
                       reply |-> reply]
             /\ request' = r.request
             /\ ret' = r.ret
    /\ UNCHANGED <<pc, disk, personas, driverVars>>

LeaveMeetingBot ==
    /\ \E bot_id \in {ReplyBotId, <<>>}, reply \in Replies :
         LET r == leave_meeting_bot(bot_id, reply)
         IN  /\ op' = [name |-> "leave_meeting_bot", bot_id |-> bot_id, reply |-> reply]
             /\ request' = r.request
             /\ ret' = r.ret
    /\ UNCHANGED <<pc, disk, personas, driverVars>>

GatewayInit ==
    /\ pc = "ready"
    /\ disk = [k \in Keys |-> Absent]
    /\ personas = <<>>
    /\ op = [name |-> "none"]
    /\ ret = NoValue
    /\ NoDriver

GatewayNext ==
    \/ CreateMeetingBot
    \/ LeaveMeetingBot

SpecGateway == GatewayInit /\ [][GatewayNext]_vars

\* ------------------------------------------------- generate_images.py

MaxPersonas == 4

MaxSaveFaults == 1

\* A pool one process larger
max_concurrent_raised == 3 + 1

max_concurrent == 3

\* The directories of the driver's run, in the order iterdir() listed them
\* when the module was imported
DirNames == <<"k1", "k2", "k3", "k4", "k5", "k6">>

DriverDirs == SubSeq(DirNames, 1, MaxPersonas)

DriverKeys == {DriverDirs[i] : i \in 1..MaxPersonas}

\* The document of directory k under display name "Persona n"
DriverDoc(k, n, image) == Document(<<"Persona", SP, n>>, <<"I", SP, "am", SP, k, ".">>, image)

\* The display names directory k may carry: one of its own, or, for the
\* second directory, the first directory's
DriverNames(k) == {k} \cup (IF k = DirNames[2] THEN {DirNames[1]} ELSE {})

\* The documents directory k may hold: no image yet or a hosted one
DriverEntries(k) ==
    {Readme(DriverDoc(k, n, image)) : n \in DriverNames(k), image \in {<<>>, Url("uploadthing.com")}}

\* f"local_images/{key}.png"
RelativeImage(key) == <<"local_images/", key, ".png">>

\* str(images_dir / f"{key}.png")
LocalImagePath(key) == <<"/app/config/">> \o RelativeImage(key)

\* The public URL upload_file returns for that file
UploadedUrl(key) == <<"https://", "utfs.io", "/f/", key, ".png">>

\* for key, persona in personas.items(): if not persona.get("image"): tasks.append(..)
RECURSIVE PreparedTasks(_)
PreparedTasks(d) ==
    IF d = <<>> THEN <<>>
    ELSE (IF d[1].val.image = <<>>
          THEN <<[key |-> d[1].key, name |-> d[1].val.name]>> ELSE <<>>)
         \o PreparedTasks(Tail(d))

RECURSIVE Fill(_, _)
Fill(n, v) == IF n = 0 THEN <<>> ELSE Append(Fill(n - 1, v), v)

\* next(k for k, v in personas.items() if v["name"] == persona_name)
FirstKeyNamed(d, name) == d[Min({i \in 1..Len(d) : d[i].val.name = name})].key

Running == {t \in 1..Len(wstate) : wstate[t] = "running"}

Queued == {t \in 1..Len(wstate) : wstate[t] = "queued"}

Finished(t) == wstate[t] \in {"ok", "failed"}

\* The saves a fault map fails
FaultCount(f) == Cardinality({k \in DOMAIN f : f[k] # "none"})

\* The fault maps that keep the run within MaxSaveFaults failed saves
FaultMaps(used) == {f \in [DriverKeys -> Faults] : used + FaultCount(f) <= MaxSaveFaults}

\* persona_manager.load_personas(), its result dropped; an exception ends main()
MainLoad ==
    /\ pc = "main"
    /\ \E ioerr \in BOOLEAN :
         /\ op' = [name |-> "load_personas", ioerr |-> ioerr]
         /\ ret' = load_personas(disk, DriverDirs, ioerr)
         /\ pc' = IF IsRaised(ret') THEN "crashed" ELSE "prepare"
    /\ UNCHANGED <<disk, personas, driverVars, request>>

PrepareTasks ==
    /\ pc = "prepare"
    /\ tasks' = PreparedTasks(personas)
    /\ wstate' = Fill(Len(tasks'), "new")
    /\ runs' = Fill(Len(tasks'), 0)
    /\ uploaded' = Fill(Len(tasks'), "pending")
    /\ idx' = 1
    /\ pc' = "submit"
    /\ UNCHANGED <<disk, personas, op, ret, results, localFiles, request, nfaults>>

\* time.sleep(2); pool.apply_async(generate_image_worker, task)
Submit ==
    /\ pc = "submit"
    /\ idx <= Len(tasks)
    /\ wstate' = [wstate EXCEPT ![idx] = "queued"]
    /\ results' = Append(results, [name |-> tasks[idx].name, task |-> idx])
    /\ idx' = idx + 1
    /\ UNCHANGED <<pc, disk, personas, op, ret, tasks, runs, localFiles, uploaded, request, nfaults>>

SubmitDone ==
    /\ pc = "submit"
    /\ idx > Len(tasks)
    /\ idx' = 1
    /\ pc' = "collect"
    /\ UNCHANGED <<disk, personas, op, ret, tasks, results, wstate, runs, localFiles, uploaded, request, nfaults>>

\* A free process of the pool takes the oldest queued task
WorkerStart(t) ==
    /\ pc \in {"submit", "collect"}
    /\ t \in Queued
    /\ t = Min(Queued)
    /\ Cardinality(Running) < max_concurrent
    /\ wstate' = [wstate EXCEPT ![t] = "running"]
    /\ runs' = [runs EXCEPT ![t] = runs[t] + 1]
    /\ UNCHANGED <<pc, disk, personas, op, ret, tasks, results, idx, localFiles, uploaded, request, nfaults>>

\* generate_image_worker returns True with the file written, or catches the
\* exception and returns False
WorkerFinish(t) ==
    /\ t \in Running
    /\ \E success \in BOOLEAN :
         /\ wstate' = [wstate EXCEPT ![t] = IF success THEN "ok" ELSE "failed"]
         /\ localFiles' = IF success THEN localFiles \cup {tasks[t].key} ELSE localFiles
    /\ UNCHANGED <<pc, disk, personas, op, ret, tasks, results, runs, idx, uploaded, request,
                   nfaults>>

\* success = result.get(); on success the image is recorded on the first key
\* carrying the task's persona name
Collect ==
    /\ pc = "collect"
    /\ idx <= Len(results)
    /\ Finished(results[idx].task)
    /\ personas' =
         IF wstate[results[idx].task] = "ok"
         THEN LET key == FirstKeyNamed(personas, results[idx].name)
              IN  SetImage(personas, key, RelativeImage(key))
         ELSE personas
    /\ idx' = idx + 1
    /\ UNCHANGED <<pc, disk, op, ret, tasks, results, wstate, runs, localFiles, uploaded, request, nfaults>>

\* persona_manager.save_personas(), then the pool is closed
CollectDone ==
    /\ pc = "collect"
    /\ idx > Len(results)
    /\ \E faults \in FaultMaps(nfaults) :
         LET r == save_personas(personas, disk, faults)
         IN  /\ op' = [name |-> "save_personas", faults |-> faults]
             /\ disk' = r.disk
             /\ ret' = r.ret
             /\ nfaults' = nfaults + FaultCount(faults)
    /\ pc' = "verify"
    /\ UNCHANGED <<personas, tasks, results, wstate, runs, idx, localFiles, uploaded, request>>

\* uploader.verify_credentials(): False ends main() with 1
VerifyCredentials ==
    /\ pc = "verify"
    /\ \E valid \in BOOLEAN :
         /\ op' = [name |-> "verify_credentials"]
         /\ ret' = Bool(valid)
         /\ pc' = IF valid THEN "upload" ELSE "done"
    /\ idx' = 1
    /\ UNCHANGED <<disk, personas, tasks, results, wstate, runs, localFiles, uploaded, request, nfaults>>

\* One pass of the upload loop.  file_url: upload_file returns a URL ("url"),
\* returns nothing ("none") or raises ("raise"); it returns a URL only for a
\* file that is there
Upload ==
    /\ pc = "upload"
    /\ idx <= Len(results)
    /\ IF wstate[results[idx].task] = "ok"
       THEN \E fault1 \in Faults, file_url \in {"url", "none", "raise"}, fault2 \in Faults :
              LET key == FirstKeyNamed(personas, results[idx].name)
                  r1  == update_persona_image(personas, disk, key, LocalImagePath(key), fault1)
                  r2  == update_persona_image(r1.personas, r1.disk, key, UploadedUrl(key), fault2)
                  f12 == [first |-> fault1, second |-> fault2]
              IN  /\ file_url # "url" => fault2 = "none"
                  /\ file_url = "url" => key \in localFiles
                  /\ nfaults + FaultCount(f12) <= MaxSaveFaults
                  /\ nfaults' = nfaults + FaultCount(f12)
                  /\ op' = [name |-> "upload_file", key |-> key, uploaded |-> file_url,
                            task |-> results[idx].task]
                  /\ personas' = IF file_url = "url" THEN r2.personas ELSE r1.personas
                  /\ disk' = IF file_url = "url" THEN r2.disk ELSE r1.disk
                  /\ ret' = IF file_url = "url" THEN r2.ret ELSE r1.ret
                  /\ uploaded' = [uploaded EXCEPT ![results[idx].task] = file_url]
       ELSE UNCHANGED <<personas, disk, op, ret, nfaults, uploaded>>
    /\ idx' = idx + 1
    /\ UNCHANGED <<pc, tasks, results, wstate, runs, localFiles, request>>

UploadDone ==
    /\ pc = "upload"
    /\ idx > Len(results)
    /\ pc' = "done"
    /\ UNCHANGED <<disk, personas, op, ret, driverVars, request>>

\* The module has been imported: the store holds what the documents parse to
DriverInit ==
    /\ pc = "main"
    /\ disk \in {d \in [DriverKeys -> UNION {DriverEntries(k) : k \in DriverKeys}] :
                   \A k \in DriverKeys : d[k] \in DriverEntries(k)}
    /\ personas = load_personas(disk, DriverDirs, FALSE).items
    /\ op = [name |-> "none"]
    /\ ret = NoValue
    /\ NoDriver

Workers == \E t \in 1..MaxPersonas : WorkerStart(t) \/ WorkerFinish(t)

DriverNext ==
    \/ MainLoad
    \/ PrepareTasks
    \/ Submit
    \/ SubmitDone
    \/ Workers
    \/ Collect
    \/ CollectDone
    \/ VerifyCredentials
    \/ Upload
    \/ UploadDone

\* A pool process that can take a task or finish the one it runs does so: the
\* calls of generate_image_worker return
SpecDriver == DriverInit /\ [][DriverNext]_vars /\ WF_vars(Workers)

\* ------------------------------------------------------------- claims

\* A line of the text starts with "## "
RECURSIVE AnyStartsWith(_, _)
AnyStartsWith(lines, mark) ==
    lines # <<>> /\ (StartsWith(lines[1], mark) \/ AnyStartsWith(Tail(lines), mark))

HasHeaderLine(text) == AnyStartsWith(Split(text, <<NL>>), <<"#", "#", SP>>)

\* A value a "- key: value" line carries as it is: one line, nothing to strip
PlainValue(text) == text = Strip(text) /\ ~Contains(text, <<NL>>)

\* C1: parse_readme of the document save_persona wrote for a record yields the
\* record's name, prompt, image and entry_message, for every record.
C1_RoundTrip ==
    (op.name = "parse_readme" /\ op.saved) =>
        /\ ret.kind = "persona"
        /\ ret.name = op.persona.name
        /\ ret.prompt = op.persona.prompt
        /\ ret.image = op.persona.image
        /\ ret.entry_message = op.persona.entry_message

\* C7: when the prompt holds a line starting with "## " (the prompt has nothing
\* to strip, and the name, image and entry_message are plain one-line values),
\* the document save_persona wrote parses back with the record's own image and
\* entry_message.
C7_EmbeddedHeader ==
    (/\ op.name = "parse_readme"
     /\ op.saved
     /\ HasHeaderLine(op.persona.prompt)
     /\ op.persona.prompt = Strip(op.persona.prompt)
     /\ PlainValue(op.persona.name)
     /\ PlainValue(op.persona.image)
     /\ PlainValue(op.persona.entry_message)) =>
        /\ ret.kind = "persona"
        /\ ret.image = op.persona.image
        /\ ret.entry_message = op.persona.entry_message

\* The document of a directory parses
Parseable(entry) == entry.kind = "readme" /\ ~IsRaised(parse_readme(entry.content))

\* C2: when the directory listing and the reads succeed, load_personas does not
\* raise, whatever the documents hold, and returns every directory whose
\* document parses.
C2_LoadIsolates ==
    (op.name \in {"__init__", "load_personas"} /\ ~op.ioerr) =>
        /\ ~IsRaised(ret)
        /\ \A k \in Keys : Parseable(disk[k]) => HasKey(ret.items, k)

\* C3: once the store is constructed, after every operation each in-memory
\* record's image is the image its on-disk document holds.
C3_NoDrift ==
    pc = "ready" =>
        \A i \in 1..Len(personas) :
            /\ Parseable(disk[personas[i].key])
            /\ parse_readme(disk[personas[i].key].content).image = personas[i].val.image

\* C4: update_persona_image with a key that is not in the store returns False
\* and changes neither the in-memory mapping nor any directory entry.
C4_UnknownKeyFrame ==
    [][(op'.name = "update_persona_image" /\ ~op'.known) =>
          /\ ret' = Bool(FALSE)
          /\ personas' = personas
          /\ disk' = disk]_vars

\* update_persona_image was called on a store with records, with a key it
\* does not hold, and returned False
C4_Witness ==
    /\ op.name = "update_persona_image"
    /\ ~op.known
    /\ op.fault = "none"
    /\ op.image # <<>>
    /\ personas # <<>>
    /\ ret = Bool(FALSE)

\* C9: get_persona leaves the store mapping and the disk as they are, and no
\* stored prompt and no document ever holds the interaction instructions.
C9_StoreNotInstructed ==
    /\ [](/\ \A i \in 1..Len(personas) :
               ~Contains(personas[i].val.prompt, interaction_instructions)
          /\ \A k \in Keys : ~Contains(disk[k].content, interaction_instructions))
    /\ [][op'.name = "get_persona" => (personas' = personas /\ disk' = disk)]_vars

\* get_persona has returned a record whose image an earlier update_persona_image
\* set and saved
C9_Witness ==
    /\ op.name = "get_persona"
    /\ ret.kind = "persona"
    /\ Contains(ret.prompt, interaction_instructions)
    /\ ret.image = Url("x.com")
    /\ \E k \in Keys : Parseable(disk[k]) /\ parse_readme(disk[k].content).image = Url("x.com")

\* C5 as stated: needs_image_upload is false for an empty image, true for a
\* non-empty image that does not contain the domain, false for one that does.
C5_FalseWhenEmpty ==
    (op.name = "needs_image_upload" /\ HasKey(personas, op.key)) =>
        LET image == At(personas, op.key).image
        IN  /\ image = <<>> => ret.val = FALSE
            /\ (image # <<>> /\ ~Contains(image, op.domain)) => ret.val = TRUE
            /\ (image # <<>> /\ Contains(image, op.domain)) => ret.val = FALSE

\* C5, amended: needs_image_upload is true for an empty image, true for a
\* non-empty image that does not contain the domain, false for a non-empty
\* image that contains it.
C5_NeedsUpload ==
    (op.name = "needs_image_upload" /\ HasKey(personas, op.key)) =>
        LET image == At(personas, op.key).image
        IN  /\ image = <<>> => ret.val = TRUE
            /\ (image # <<>> /\ ~Contains(image, op.domain)) => ret.val = TRUE
            /\ (image # <<>> /\ Contains(image, op.domain)) => ret.val = FALSE

\* needs_image_upload answered True for a record without image
C5_Witness ==
    /\ op.name = "needs_image_upload"
    /\ HasKey(personas, op.key)
    /\ At(personas, op.key).image = <<>>
    /\ op.domain = UploadDomain
    /\ ret.val = TRUE

\* The keys a not-found message lists after "Valid options: "
ListedOptions(msg) ==
    LET tail == Split1(msg, <<"Valid", SP, "options", ":", SP>>)[2]
    IN  IF tail = <<>> THEN <<>> ELSE Split(tail, <<",", SP>>)

IsKeyNotFound(r, d) ==
    /\ r.kind = "raise"
    /\ r.exc = "KeyError"
    /\ ListedOptions(r.msg) = KeyTexts(d)

\* C6 as stated: get_persona(k) raises the not-found KeyError listing the keys
\* for every k that is not in the store, the empty string included.
C6_EveryUnknownKey ==
    (/\ op.name = "get_persona"
     /\ op.arg # None
     /\ (op.arg = <<>> \/ ~HasKey(personas, op.arg[1]))) =>
        IsKeyNotFound(ret, personas)

\* C6, amended: get_persona(k) raises the not-found KeyError listing the keys
\* for every non-empty k that is not in the store, the empty store included.
C6_UnknownKey ==
    (/\ op.name = "get_persona"
     /\ op.arg \notin {None, <<>>}
     /\ ~HasKey(personas, op.arg[1])) =>
        IsKeyNotFound(ret, personas)

\* get_persona raised KeyError for a non-empty key a non-empty store lacks
C6_Witness ==
    /\ op.name = "get_persona"
    /\ op.arg \notin {None, <<>>}
    /\ ~HasKey(personas, op.arg[1])
    /\ personas # <<>>
    /\ ret.kind = "raise"
    /\ ret.exc = "KeyError"

\* C8: create_meeting_bot and leave_meeting_bot never raise; create_meeting_bot
\* returns the identifier of the 200 reply's body and None after any other
\* outcome, leave_meeting_bot returns True after a 200 and False otherwise.
C8_NeverRaises ==
    /\ op.name = "create_meeting_bot" =>
          /\ ret.kind = "value"
          /\ (op.reply.kind = "response" /\ op.reply.code = 200 /\ op.reply.body = "bot_id"
              /\ request.method = "POST") => ret.val = ReplyBotId
          /\ (op.reply.kind = "exception" \/ op.reply.code # 200) => ret.val = None
    /\ op.name = "leave_meeting_bot" =>
          /\ ret.kind = "bool"
          /\ ret.val = (op.reply.kind = "response" /\ op.reply.code = 200)

\* C10: at every moment at most 3 executions of generate_image_worker are in
\* progress, no task is executed more than once, and every task submitted to
\* the pool eventually finishes with a success or a failure.
C10_BoundedPool ==
    /\ [](/\ Cardinality(Running) <= 3
          /\ \A t \in 1..Len(runs) : runs[t] <= 1)
    /\ \A t \in 1..MaxPersonas :
         (t \in Queued \cup Running) ~> (t <= Len(wstate) /\ Finished(t))

\* Three executions are in progress while a fourth task waits
C10_Witness ==
    /\ Cardinality(Running) = 3
    /\ Queued # {}

\* main() returned after the upload loop: the credentials were valid
FinishedValid ==
    /\ pc = "done"
    /\ ~(op.name = "verify_credentials" /\ ret = Bool(FALSE))

\* The outcome the driver owes the persona of task t
OwedImage(t) ==
    IF wstate[t] = "failed" THEN <<>>
    ELSE IF uploaded[t] = "url" THEN UploadedUrl(tasks[t].key)
    ELSE LocalImagePath(tasks[t].key)

\* C11: when the driver finishes with valid upload credentials, every persona
\* that lacked an image at start has an empty image if its generation failed,
\* the returned public URL if generation and upload succeeded, and the local
\* file path if generation succeeded and the upload returned no URL or raised;
\* each persona's outcome depends on its own task only.
C11_Outcomes ==
    FinishedValid =>
       \A t \in 1..Len(tasks) : At(personas, tasks[t].key).image = OwedImage(t)

\* The key whose task produced the result the loop is at
ResultKey == tasks[results[idx].task].key

\* C12: every successful generation or upload result is recorded on the key
\* whose task produced it and on no other key, also when two personas share a
\* display name; a persona that had an image at start is never changed.
C12_OwnKeyOnly ==
    [][/\ \A i \in 1..Len(personas) :
            personas'[i] # personas[i] =>
               /\ pc \in {"collect", "upload"}
               /\ idx <= Len(results)
               /\ personas[i].key = ResultKey
       /\ (pc = "collect" /\ idx' = idx + 1 /\ wstate[results[idx].task] = "ok") =>
             At(personas', ResultKey).image = RelativeImage(ResultKey)
       /\ (pc = "upload" /\ idx' = idx + 1 /\ wstate[results[idx].task] = "ok") =>
             At(personas', ResultKey).image =
                IF uploaded'[results[idx].task] = "url" THEN UploadedUrl(ResultKey)
                ELSE LocalImagePath(ResultKey)]_vars
====
